---- MODULE Spec2Model ----
(***************************************************************************)
(* State-machine model of the epoll server core: the double-mapped ring    *)
(* (atomic_queue.hpp), the client slot pool with its dispatch state        *)
(* machine and lifecycle (pool.hpp) and the page rounding of the mapping   *)
(* allocator (mem.hpp).  epoll.hpp is not part of the sources; the poller  *)
(* (add / remove / rearm / wait / close) is modelled from the              *)
(* specification: one-shot registrations keyed by descriptor, each         *)
(* carrying a slot pointer.                                                *)
(*                                                                         *)
(* Slot pointer k (1 .. clientcap_) stands for &mem_[k-1]; 0 is the null   *)
(* pointer, the content of a never-written cell of the zero-filled         *)
(* mapping.  Descriptors are 1 .. MaxFd; sfd = 0 marks a free slot.        *)
(***************************************************************************)
EXTENDS Integers, Sequences, FiniteSets, Bags, TLC

\* ------------------------------------------------------------------ bounds
\* Stand-in for getpagesize(): capacities are rounded up to a multiple of it.
PageSize == 2
\* The clientcap argument given to the client_pool constructor.
ClientCapArg == 1
\* Descriptors the operating system hands out: 1 .. MaxFd.
MaxFd == 2
\* Calls of client_pool::stop() made by the stopping thread.
MaxStopCalls == 2
\* Reads that return data during one event, in a run that records the event.
MaxReads == 2
\* Bytes one read can return: 1 .. MaxReadLen.
MaxReadLen == 2
\* Values of an out-of-band byte: 1 .. MaxOobByte.
MaxOobByte == 2
\* Listener sockets registered with the server before run().
NListeners == 2
\* The capacity hint of a ring that is used on its own by looping threads.
RingCapHint == 3

\* ----------------------------------------------------------------- threads
Acceptor  == "acc"
Workers   == {"w1", "w2"}
Stopper   == "stp"
Producers == {"p1", "p2", "p3"}
Consumers == {"c1", "c2"}
Threads   == {Acceptor, Stopper} \cup Workers \cup Producers \cup Consumers

\* ------------------------------------------------------------ mem.hpp
\* detail::gen_memmap: the element count is expanded to a multiple of the
\* page size (the count itself, not the byte size, is what the code rounds).
gen_memmap(count) ==
    IF count % PageSize # 0
    THEN count + PageSize - (count % PageSize)
    ELSE count

\* client_pool constructor: mem_ is initialised first and gen_memmap writes the
\* rounded count back through its pointer argument, so clientcap_ and the
\* ring's capacity hint are both the rounded value.
clientcap_ == gen_memmap(ClientCapArg)
\* client_pool constructor: unused_(clientcap): the capacity hint of the
\* free-list ring.
unused_capHint == clientcap_

Slots == 1 .. clientcap_
Fds   == 1 .. MaxFd
\* Descriptors of the listener sockets.
Listeners == MaxFd + 1 .. MaxFd + NListeners

\* ------------------------------------------------------------ epoll flags
EPOLLIN    == "EPOLLIN"
EPOLLPRI   == "EPOLLPRI"
EPOLLOUT   == "EPOLLOUT"
EPOLLERR   == "EPOLLERR"
EPOLLHUP   == "EPOLLHUP"
EPOLLRDHUP == "EPOLLRDHUP"
AllFlags   == {EPOLLIN, EPOLLPRI, EPOLLOUT, EPOLLERR, EPOLLHUP, EPOLLRDHUP}

VARIABLES
    clientsize_,   \* std::atomic<size_t> clientsize_
    sfd,           \* sfd[k]: mem_[k-1].sfd
    cap_,          \* int cap_: the ring's capacity, fixed by its constructor
    buff_,         \* the ring's physical cells 0 .. cap_-1
    head_,         \* std::atomic<int> head_
    tail_,         \* std::atomic<int> tail_
    live,          \* pointers stored in the ring and not yet reserved by a dequeue
    reg,           \* poller registrations: descriptor -> NoReg or [slot, armed]
    epClosed,      \* the client poller has been closed
    fdOpen,        \* descriptors of open client sockets
    threads_,      \* std::vector<std::thread> threads_
    tstate,        \* per worker: "none", "running", "exited", "joined"
    lock_,         \* std::mutex lock_: "free" or the holder
    stopCalls,     \* stop() calls begun
    stopRets,      \* stop() calls that stopped a running pool and returned
    maskSet,       \* readiness masks the kernel delivers in this run
    nworkers_,     \* std::size_t nworkers_: the constructor's worker count
    addMayFail,    \* the kernel may refuse a registration (ENOMEM, ENOSPC) in this run
    maxConn,       \* connections the peers hold open at the same time in this run
    hist,          \* this run records, per event, what the worker did (history)
    slock_,        \* server_pool: std::mutex lock_: "free" or the holder
    lpClosed,      \* server_pool: the listener poller has been closed
    lreg,          \* server_pool: listener descriptors registered in the listener poller
    lopen,         \* listener descriptors that are open
    toEnq,         \* ring test: values not yet passed to enqueue
    deqLeft,       \* ring test: dequeue calls not yet begun
    deqd,          \* ring test: bag of values returned by dequeue
    pc,            \* per thread: position in its code
    loc            \* per thread: local variables

poolVars == <<clientsize_, sfd, reg, epClosed, fdOpen>>
ringVars == <<buff_, head_, tail_, live>>
lifeVars == <<threads_, tstate, lock_, stopCalls, stopRets, nworkers_>>
testVars == <<toEnq, deqLeft, deqd>>
\* What is fixed for a whole run: the environment and the ring's capacity.
envVars  == <<maskSet, addMayFail, maxConn, hist, cap_>>
srvVars  == <<slock_, lpClosed, lreg, lopen>>
vars == <<clientsize_, sfd, cap_, buff_, head_, tail_, live, reg, epClosed, fdOpen,
          threads_, tstate, lock_, stopCalls, stopRets, nworkers_, maskSet, addMayFail, maxConn, hist,
          slock_, lpClosed, lreg, lopen, toEnq, deqLeft, deqd, pc, loc>>

NoReg == [slot |-> 0, armed |-> FALSE]

\* Locals of a thread that is not inside any call.  lfd is the listener whose
\* event server_pool::process is serving, err the errno that ended its accept
\* loop, srv whether client_pool::stop was called by server_pool::stop (none
\* of them set: the call came from a test driver).  The last four fields are
\* history, kept when hist is set: the handlers process() called, the results
\* of the reads made, the callbacks invoked and the pool operations done, each
\* in order, since the event was delivered.
Loc0 == [cl |-> 0, fd |-> 0, idx |-> 0, data |-> 0, flags |-> {},
         todo |-> <<>>, entry |-> 0, addret |-> 0, ret |-> TRUE,
         lfd |-> 0, err |-> "none", srv |-> FALSE,
         handlers |-> <<>>, reads |-> <<>>, calls |-> <<>>, acts |-> <<>>]

\* The history field f of the locals l, extended by x.
Log(l, f, x) == IF hist THEN [l EXCEPT ![f] = Append(@, x)] ELSE l

Goto(th, p, l) ==
    /\ pc'  = [pc  EXCEPT ![th] = p]
    /\ loc' = [loc EXCEPT ![th] = l]

\* --------------------------------------------------- atomic_queue.hpp
\* The double mapping: buff_[i] and buff_[i + cap_] are the same cell.
Cell(i) == i % cap_
\* Indices outside [0, 2*cap_) are outside the mapping.
Mapped(i) == 0 <= i /\ i < 2 * cap_

\* unuse: the pointer is in the ring once enqueue has stored it.
Stored(th, l) == IF th \in Workers THEN Log(l, "acts", "enqueue") ELSE l

\* Where a thread continues after enqueue / dequeue returns.
AfterEnqueue(th) == IF th \in Producers THEN "idle" ELSE "dec_size"
AfterDequeue(th) == IF th \in Consumers THEN "deq_ret" ELSE "construct"

\* enqueue: int t = tail_.fetch_add(1);
EnqFaa(th) ==
    /\ pc[th] = "enq_faa"
    /\ tail_' = tail_ + 1
    /\ Goto(th, "enq_store", [loc[th] EXCEPT !.idx = tail_])
    /\ UNCHANGED <<buff_, head_, live>>

\* enqueue: buff_[t++] = data; if (cap_ <= t) ...
EnqStore(th) ==
    /\ pc[th] = "enq_store"
    /\ LET t == loc[th].idx IN
       IF Mapped(t)
       THEN /\ buff_' = [buff_ EXCEPT ![Cell(t)] = loc[th].data]
            /\ live' = live + 1
            /\ Goto(th, IF cap_ <= t + 1 THEN "enq_spin" ELSE AfterEnqueue(th),
                    Stored(th, [loc[th] EXCEPT !.idx = t + 1]))
       ELSE /\ Goto(th, "fault", loc[th])
            /\ UNCHANGED <<buff_, live>>
    /\ UNCHANGED <<head_, tail_>>

\* enqueue: while (tail_.load() > t) {  }
EnqSpin(th) ==
    /\ pc[th] = "enq_spin"
    /\ ~(tail_ > loc[th].idx)
    /\ Goto(th, "enq_cas", loc[th])
    /\ UNCHANGED ringVars

\* enqueue: tail_.compare_exchange_strong(t, t - cap_)
EnqCas(th) ==
    /\ pc[th] = "enq_cas"
    /\ tail_' = IF tail_ = loc[th].idx THEN loc[th].idx - cap_ ELSE tail_
    /\ Goto(th, AfterEnqueue(th), loc[th])
    /\ UNCHANGED <<buff_, head_, live>>

\* dequeue: int h = head_.fetch_add(1);
DeqFaa(th) ==
    /\ pc[th] = "deq_faa"
    /\ head_' = head_ + 1
    /\ live' = live - 1
    /\ Goto(th, "deq_read", [loc[th] EXCEPT !.idx = head_])
    /\ UNCHANGED <<buff_, tail_>>

\* dequeue: const T data = buff_[h++]; if (cap_ <= h) ...
DeqRead(th) ==
    /\ pc[th] = "deq_read"
    /\ LET h == loc[th].idx IN
       IF Mapped(h)
       THEN Goto(th, IF cap_ <= h + 1 THEN "deq_spin" ELSE AfterDequeue(th),
                 [loc[th] EXCEPT !.idx = h + 1, !.data = buff_[Cell(h)]])
       ELSE Goto(th, "fault", loc[th])
    /\ UNCHANGED ringVars

\* dequeue: while (head_.load() > h) {  }
DeqSpin(th) ==
    /\ pc[th] = "deq_spin"
    /\ ~(head_ > loc[th].idx)
    /\ Goto(th, "deq_cas", loc[th])
    /\ UNCHANGED ringVars

\* dequeue: head_.compare_exchange_strong(h, h - cap_)
DeqCas(th) ==
    /\ pc[th] = "deq_cas"
    /\ head_' = IF head_ = loc[th].idx THEN loc[th].idx - cap_ ELSE head_
    /\ Goto(th, AfterDequeue(th), loc[th])
    /\ UNCHANGED <<buff_, tail_, live>>

EnqueueStep(th) == EnqFaa(th) \/ EnqStore(th) \/ EnqSpin(th) \/ EnqCas(th)
DequeueStep(th) == DeqFaa(th) \/ DeqRead(th) \/ DeqSpin(th) \/ DeqCas(th)

\* ------------------------------------------------------------- the poller
\* epoll::add(cl): registers cl->sfd, one-shot, tagged with the slot pointer.
\* The kernel refuses a descriptor that is not open or is already registered;
\* any other call may still fail (ENOMEM, ENOSPC).
AddResults(cl) ==
    IF sfd[cl] \in fdOpen /\ reg[sfd[cl]] = NoReg
    THEN IF addMayFail THEN {0, -1} ELSE {0}
    ELSE {-1}

RegAdd(cl) == [reg EXCEPT ![sfd[cl]] = [slot |-> cl, armed |-> TRUE]]

\* epoll::remove(fd)
RegRemove(fd) == IF fd \in Fds THEN [reg EXCEPT ![fd] = NoReg] ELSE reg

\* epoll::rearm(cl): re-enables the one-shot registration of cl->sfd.
RegRearm(cl) ==
    IF sfd[cl] \in Fds /\ reg[sfd[cl]] # NoReg
    THEN [reg EXCEPT ![sfd[cl]] = [slot |-> cl, armed |-> TRUE]]
    ELSE reg

\* endpoint_close(fd): the kernel also drops a closed descriptor from the poller.
CloseFd(fd) ==
    /\ fdOpen' = fdOpen \ {fd}
    /\ reg' = RegRemove(fd)

Registered(k) == {fd \in Fds : reg[fd] # NoReg /\ reg[fd].slot = k}

\* ------------------------------------------------ pool.hpp: claiming a slot
\* Mutant of CapacityReached: the capacity comparison misses the full pool.
CapacityReached_gt(size) == size > clientcap_

\* add_client: if (clientsize_.load() == clientcap_) return false;
CapacityReached(size) == size = clientcap_

\* Mutant of IncSize: use() forgets the increment.
IncSize_skip(size) == size

\* use(): ++clientsize_
IncSize(size) == size + 1
\* unuse(): --clientsize_
DecSize(size) == size - 1

\* add_client: return ret == 0;
AddClientResult(addret) == addret = 0

\* server_pool::process: cfd = endpoint_accept(sfd); the kernel hands out the
\* lowest descriptor that is not open.
Accept ==
    /\ pc[Acceptor] = "idle"
    /\ stopCalls = 0
    /\ Cardinality(fdOpen) < maxConn
    /\ \E fd \in Fds \ fdOpen :
          /\ \A g \in Fds \ fdOpen : fd <= g
          /\ fdOpen' = fdOpen \cup {fd}
          /\ Goto(Acceptor, "add_client", [Loc0 EXCEPT !.fd = fd])
    /\ UNCHANGED <<clientsize_, sfd, reg, epClosed, ringVars, lifeVars,
                   envVars, srvVars, testVars>>

\* add_client: the capacity check on the loaded counter.
AddClientCheck ==
    /\ pc[Acceptor] = "add_client"
    /\ IF CapacityReached(clientsize_)
       THEN Goto(Acceptor, "a_ret",
                 [loc[Acceptor] EXCEPT !.entry = clientsize_, !.ret = FALSE])
       ELSE Goto(Acceptor, "inc_size",
                 [loc[Acceptor] EXCEPT !.entry = clientsize_])
    /\ UNCHANGED <<poolVars, ringVars, lifeVars, envVars, srvVars, testVars>>

\* use: ++clientsize_; then unused_.dequeue()
UseInc ==
    /\ pc[Acceptor] = "inc_size"
    /\ clientsize_' = IncSize(clientsize_)
    /\ Goto(Acceptor, "deq_faa", loc[Acceptor])
    /\ UNCHANGED <<sfd, reg, epClosed, fdOpen, ringVars, lifeVars, envVars, srvVars, testVars>>

UseDequeue ==
    /\ DequeueStep(Acceptor)
    /\ UNCHANGED <<poolVars, lifeVars, envVars, srvVars, testVars>>

\* use: return new (mem) client(sfd);  a null pointer faults.
UseConstruct ==
    /\ pc[Acceptor] = "construct"
    /\ IF loc[Acceptor].data \in Slots
       THEN /\ sfd' = [sfd EXCEPT ![loc[Acceptor].data] = loc[Acceptor].fd]
            /\ Goto(Acceptor, "register",
                    [loc[Acceptor] EXCEPT !.cl = loc[Acceptor].data])
       ELSE /\ Goto(Acceptor, "fault", loc[Acceptor])
            /\ UNCHANGED sfd
    /\ UNCHANGED <<clientsize_, reg, epClosed, fdOpen, ringVars, lifeVars,
                   envVars, srvVars, testVars>>

\* add_client: const int ret = epoll::add(cl); return ret == 0;
AddClientRegister ==
    /\ pc[Acceptor] = "register"
    /\ \E r \in AddResults(loc[Acceptor].cl) :
          /\ reg' = IF r = 0 THEN RegAdd(loc[Acceptor].cl) ELSE reg
          /\ Goto(Acceptor, "a_ret",
                  [loc[Acceptor] EXCEPT !.addret = r, !.ret = AddClientResult(r)])
    /\ UNCHANGED <<clientsize_, sfd, epClosed, fdOpen, ringVars, lifeVars,
                   envVars, srvVars, testVars>>

\* server_pool::process: the while loop calls endpoint_accept again, with the
\* listener and the flags of the event; a test driver is idle again.
AfterAccepted(l) == IF l.lfd # 0 THEN "l_accept" ELSE "idle"
InLoop(l) == [Loc0 EXCEPT !.lfd = l.lfd, !.flags = l.flags]

\* server_pool::process: if (... || !clients_.add_client(cfd)) endpoint_close(cfd);
AcceptorReturn ==
    /\ pc[Acceptor] = "a_ret"
    /\ IF loc[Acceptor].ret
       THEN UNCHANGED <<fdOpen, reg>>
       ELSE CloseFd(loc[Acceptor].fd)
    /\ Goto(Acceptor, AfterAccepted(loc[Acceptor]), InLoop(loc[Acceptor]))
    /\ UNCHANGED <<clientsize_, sfd, epClosed, ringVars, lifeVars, envVars, srvVars, testVars>>

AddClientStep ==
    \/ AddClientCheck
    \/ UseInc
    \/ UseDequeue
    \/ UseConstruct
    \/ AddClientRegister
    \/ AcceptorReturn

AcceptorStep ==
    \/ Accept
    \/ AddClientStep

\* ------------------------------------------- pool.hpp: the dispatch machine
\* Mutant of InThenOut: on_write_ready before the drain.
InThenOut_swapped == <<"out", "in">>

\* case EPOLLIN | EPOLLOUT: handle_epollin(client); handle_epollout(client);
InThenOut == <<"in", "out">>

\* client_pool::process: the switch on the readiness mask, as the handlers it
\* calls in order ("unuse", "in", "pri", "out").
process(flags) ==
    IF flags \in {{EPOLLHUP}, {EPOLLHUP, EPOLLOUT},
                  {EPOLLRDHUP}, {EPOLLRDHUP, EPOLLOUT}}
    THEN <<"unuse">>
    ELSE IF flags \in {{EPOLLIN}, {EPOLLIN, EPOLLHUP},
                       {EPOLLIN, EPOLLHUP, EPOLLOUT},
                       {EPOLLIN, EPOLLRDHUP},
                       {EPOLLIN, EPOLLRDHUP, EPOLLOUT}}
    THEN <<"in">>
    ELSE IF flags \in {{EPOLLPRI}, {EPOLLPRI, EPOLLHUP},
                       {EPOLLPRI, EPOLLHUP, EPOLLOUT},
                       {EPOLLPRI, EPOLLRDHUP},
                       {EPOLLPRI, EPOLLRDHUP, EPOLLOUT}}
    THEN <<"pri">>
    ELSE IF flags \in {{EPOLLIN, EPOLLPRI}, {EPOLLIN, EPOLLPRI, EPOLLHUP},
                       {EPOLLIN, EPOLLPRI, EPOLLHUP, EPOLLOUT},
                       {EPOLLIN, EPOLLPRI, EPOLLRDHUP},
                       {EPOLLIN, EPOLLPRI, EPOLLRDHUP, EPOLLOUT}}
    THEN <<"pri">>
    ELSE IF flags = {EPOLLOUT}
    THEN <<"out">>
    ELSE IF flags = {EPOLLIN, EPOLLOUT}
    THEN InThenOut
    ELSE IF flags = {EPOLLPRI, EPOLLOUT}
    THEN <<"pri", "out">>
    ELSE IF flags = {EPOLLIN, EPOLLPRI, EPOLLOUT}
    THEN <<"pri", "out">>
    ELSE IF EPOLLERR \in flags
    THEN <<"unuse">>
    ELSE <<>>

\* The first position of a handler.
Entry(h) ==
    CASE h = "unuse" -> "u_remove"
      [] h = "in"    -> "in_read"
      [] h = "pri"   -> "pri_mark"
      [] h = "out"   -> "on_write_ready"

\* The object a callback is invoked on: on_input and on_write_ready through
\* static_cast<Tderiv*>(this), on_oob by its unqualified name inside
\* client_pool, which names the non-virtual client_pool::on_oob.
OnInputCallee      == "Tderiv"
OnOobCallee        == "client_pool"
OnWriteReadyCallee == "Tderiv"

\* A callback invocation: the function, the object it is called on, the
\* descriptor passed (cl->sfd at the call) and the byte count or byte passed.
CallRec(fn, on, fd, arg) == [fn |-> fn, on |-> on, fd |-> fd, arg |-> arg]

\* handle_epollout: static_cast<Tderiv*>(this)->on_write_ready(cl->sfd);
OnWriteReady(l) ==
    Log(l, "calls", CallRec("on_write_ready", OnWriteReadyCallee, sfd[l.cl], 0))
\* Mutant of OnInput: on_input is given one byte less than was read.
OnInput_short(l, nbytes) ==
    Log(l, "calls", CallRec("on_input", OnInputCallee, sfd[l.cl], nbytes - 1))

\* static_cast<Tderiv*>(this)->on_input(cl->sfd, cl->buff, nbytes);
OnInput(l, nbytes) ==
    Log(l, "calls", CallRec("on_input", OnInputCallee, sfd[l.cl], nbytes))
\* on_oob(cl->sfd, oobdata);
OnOob(l, oobdata) ==
    Log(l, "calls", CallRec("on_oob", OnOobCallee, sfd[l.cl], oobdata))

\* process() calls the next handler of its case.
Enter(l) ==
    LET h  == Head(l.todo)
        l1 == Log([l EXCEPT !.todo = Tail(l.todo)], "handlers", h)
    IN  IF h = "out" THEN OnWriteReady(l1) ELSE l1

\* A handler returned to process() with locals l: the next handler of the
\* case runs, or process() returns to the loop of epoll::wait().  In a run
\* that records its events the end of process() is a position of its own,
\* where the record of the event is complete.
ReturnFrom(w, l) ==
    IF l.todo = <<>>
    THEN IF hist THEN Goto(w, "p_ret", l) ELSE Goto(w, "wait", Loc0)
    ELSE Goto(w, Entry(Head(l.todo)), Enter(l))

Return(w) == ReturnFrom(w, loc[w])

\* epoll::wait(): one armed registration fires, is disabled (one-shot) and is
\* delivered to this worker with its payload; process(cast(data), flags).
Wait(w) ==
    /\ pc[w] = "wait"
    /\ ~epClosed
    /\ \E fd \in fdOpen, flags \in maskSet :
          /\ reg[fd].armed
          /\ reg' = [reg EXCEPT ![fd].armed = FALSE]
          /\ ReturnFrom(w, [Loc0 EXCEPT !.cl = reg[fd].slot, !.flags = flags,
                                        !.todo = process(flags)])
    /\ UNCHANGED <<clientsize_, sfd, epClosed, fdOpen, ringVars, lifeVars,
                   envVars, srvVars, testVars>>

\* process() returned: the worker is back in the loop of epoll::wait().
ProcessReturn(w) ==
    /\ pc[w] = "p_ret"
    /\ Goto(w, "wait", Loc0)
    /\ UNCHANGED <<poolVars, ringVars, lifeVars, envVars, srvVars, testVars>>

\* endpoint_read(cl->sfd, ...): n > 0 bytes, 0 (the peer closed), or -1 with
\* EAGAIN or with another error; a descriptor that is not open only fails.
ReadLens == 1 .. MaxReadLen
ReadResults(cl) ==
    IF sfd[cl] \in fdOpen
    THEN {[n |-> k, errno |-> "none"] : k \in ReadLens \cup {0}}
            \cup {[n |-> -1, errno |-> "EAGAIN"], [n |-> -1, errno |-> "EIO"]}
    ELSE {[n |-> -1, errno |-> "EBADF"]}

\* In a run that records its events the peer sends at most MaxReads chunks
\* per event.
MayReadData(l) == ~hist \/ Len(l.reads) < MaxReads

\* The locals after a read returned r.
Read(l, r) == Log(l, "reads", r)

\* handle_epollin: one pass of the read loop.
InRead(w) ==
    /\ pc[w] = "in_read"
    /\ \E r \in ReadResults(loc[w].cl) :
          /\ r.n > 0 => MayReadData(loc[w])
          /\ IF r.n = -1
             THEN IF r.errno # "EAGAIN"
                  THEN Goto(w, "u_remove", Read(loc[w], r)) /\ UNCHANGED reg
                  ELSE /\ reg' = RegRearm(loc[w].cl)
                       /\ ReturnFrom(w, Log(Read(loc[w], r), "acts", "rearm"))
             ELSE IF r.n = 0
             THEN Goto(w, "u_remove", Read(loc[w], r)) /\ UNCHANGED reg
             ELSE Goto(w, "in_on_input", OnInput(Read(loc[w], r), r.n)) /\ UNCHANGED reg
    /\ UNCHANGED <<clientsize_, sfd, epClosed, fdOpen, ringVars, lifeVars,
                   envVars, srvVars, testVars>>

\* handle_epollin: on_input returned; the loop reads again.
InOnInputReturn(w) ==
    /\ pc[w] = "in_on_input"
    /\ Goto(w, "in_read", loc[w])
    /\ UNCHANGED <<poolVars, ringVars, lifeVars, envVars, srvVars, testVars>>

\* handle_epollpri: ioctl(SIOCATMARK) fails, or reports no mark, or reports
\* the mark and endpoint_read_oob fails or yields the byte b.
OobBytes == 1 .. MaxOobByte
MarkResults ==
    {[ioctl |-> -1, mark |-> 0, oob |-> 0, b |-> 0],
     [ioctl |-> 0,  mark |-> 0, oob |-> 0, b |-> 0],
     [ioctl |-> 0,  mark |-> 1, oob |-> -1, b |-> 0]}
        \cup {[ioctl |-> 0, mark |-> 1, oob |-> 1, b |-> b] : b \in OobBytes}

PriMark(w) ==
    /\ pc[w] = "pri_mark"
    /\ \E r \in MarkResults :
          IF r.ioctl = -1
          THEN Goto(w, "u_remove", loc[w])
          ELSE IF r.mark # 0
          THEN IF r.oob # -1
               THEN Goto(w, "pri_on_oob", OnOob(loc[w], r.b))
               ELSE Goto(w, "u_remove", loc[w])
          ELSE Goto(w, "pri_read", loc[w])
    /\ UNCHANGED <<poolVars, ringVars, lifeVars, envVars, srvVars, testVars>>

\* handle_epollpri: on_oob returned.
PriOnOobReturn(w) ==
    /\ pc[w] = "pri_on_oob"
    /\ Goto(w, "pri_read", loc[w])
    /\ UNCHANGED <<poolVars, ringVars, lifeVars, envVars, srvVars, testVars>>

\* handle_epollpri: the ordinary read of the loop pass.
PriRead(w) ==
    /\ pc[w] = "pri_read"
    /\ \E r \in ReadResults(loc[w].cl) :
          /\ r.n > 0 => MayReadData(loc[w])
          /\ IF r.n = -1
             THEN IF r.errno # "EAGAIN"
                  THEN Goto(w, "u_remove", Read(loc[w], r)) /\ UNCHANGED reg
                  ELSE /\ reg' = RegRearm(loc[w].cl)
                       /\ ReturnFrom(w, Log(Read(loc[w], r), "acts", "rearm"))
             ELSE IF r.n = 0
             THEN Goto(w, "u_remove", Read(loc[w], r)) /\ UNCHANGED reg
             ELSE Goto(w, "pri_on_input", OnInput(Read(loc[w], r), r.n)) /\ UNCHANGED reg
    /\ UNCHANGED <<clientsize_, sfd, epClosed, fdOpen, ringVars, lifeVars,
                   envVars, srvVars, testVars>>

\* handle_epollpri: on_input returned; the loop queries the mark again.
PriOnInputReturn(w) ==
    /\ pc[w] = "pri_on_input"
    /\ Goto(w, "pri_mark", loc[w])
    /\ UNCHANGED <<poolVars, ringVars, lifeVars, envVars, srvVars, testVars>>

\* handle_epollout: on_write_ready(cl->sfd) returned.
OnWriteReadyReturn(w) ==
    /\ pc[w] = "on_write_ready"
    /\ Return(w)
    /\ UNCHANGED <<poolVars, ringVars, lifeVars, envVars, srvVars, testVars>>

\* unuse: epoll::remove(cl->sfd);
UnuseRemove(w) ==
    /\ pc[w] = "u_remove"
    /\ reg' = RegRemove(sfd[loc[w].cl])
    /\ Goto(w, "u_close", Log(loc[w], "acts", "remove"))
    /\ UNCHANGED <<clientsize_, sfd, epClosed, fdOpen, ringVars, lifeVars,
                   envVars, srvVars, testVars>>

\* unuse: endpoint_close(cl->sfd);
UnuseClose(w) ==
    /\ pc[w] = "u_close"
    /\ CloseFd(sfd[loc[w].cl])
    /\ Goto(w, "u_zero", Log(loc[w], "acts", "close"))
    /\ UNCHANGED <<clientsize_, sfd, epClosed, ringVars, lifeVars, envVars, srvVars, testVars>>

\* unuse: cl->sfd = 0; then unused_.enqueue(cl)
UnuseZero(w) ==
    /\ pc[w] = "u_zero"
    /\ sfd' = [sfd EXCEPT ![loc[w].cl] = 0]
    /\ Goto(w, "enq_faa", Log([loc[w] EXCEPT !.data = loc[w].cl], "acts", "zero"))
    /\ UNCHANGED <<clientsize_, reg, epClosed, fdOpen, ringVars, lifeVars,
                   envVars, srvVars, testVars>>

UnuseEnqueue(w) ==
    /\ EnqueueStep(w)
    /\ UNCHANGED <<poolVars, lifeVars, envVars, srvVars, testVars>>

\* unuse: --clientsize_;  every caller of unuse then leaves its handler.
UnuseDec(w) ==
    /\ pc[w] = "dec_size"
    /\ clientsize_' = DecSize(clientsize_)
    /\ ReturnFrom(w, Log(loc[w], "acts", "dec"))
    /\ UNCHANGED <<sfd, reg, epClosed, fdOpen, ringVars, lifeVars, envVars, srvVars, testVars>>

UnuseStep(w) ==
    \/ UnuseRemove(w)
    \/ UnuseClose(w)
    \/ UnuseZero(w)
    \/ UnuseEnqueue(w)
    \/ UnuseDec(w)

InStep(w)  == InRead(w) \/ InOnInputReturn(w)
PriStep(w) == PriMark(w) \/ PriOnOobReturn(w) \/ PriRead(w) \/ PriOnInputReturn(w)

\* ------------------------------------------------- pool.hpp: run and stop
\* client_pool::run(): under lock_, spawns the workers if there are none.
WorkerSeq == <<"w1", "w2">>

Spawned(th) == \E i \in 1 .. nworkers_ : WorkerSeq[i] = th

Run ==
    /\ lock_ = "free"
    /\ threads_ = <<>>
    /\ threads_' = SubSeq(WorkerSeq, 1, nworkers_)
    /\ tstate' = [w \in Workers |->
                    IF Spawned(w) THEN "running" ELSE tstate[w]]
    /\ pc' = [th \in Threads |-> IF Spawned(th) THEN "wait" ELSE pc[th]]
    /\ UNCHANGED <<poolVars, ringVars, lock_, stopCalls, stopRets, nworkers_,
                   envVars, srvVars, testVars, loc>>

\* epoll::wait() on a closed poller returns for good: the worker's thread
\* function ends.
WaitClosed(w) ==
    /\ pc[w] = "wait"
    /\ epClosed
    /\ tstate' = [tstate EXCEPT ![w] = "exited"]
    /\ Goto(w, "exited", Loc0)
    /\ UNCHANGED <<poolVars, ringVars, threads_, lock_, stopCalls, stopRets,
                   nworkers_, envVars, srvVars, testVars>>

\* stop(): std::lock_guard<std::mutex> lock(lock_);  The caller has closed the
\* listener poller first, so no add_client is in flight.
StopLock ==
    /\ pc[Stopper] = "idle"
    /\ pc[Acceptor] = "idle"
    /\ stopCalls < MaxStopCalls
    /\ lock_ = "free"
    /\ lock_' = Stopper
    /\ stopCalls' = stopCalls + 1
    /\ Goto(Stopper, "s_check", Loc0)
    /\ UNCHANGED <<poolVars, ringVars, threads_, tstate, stopRets, nworkers_,
                   envVars, srvVars, testVars>>

\* Where the caller of client_pool::stop() continues: server_pool::stop at
\* the end of its lock scope, a test driver idle again.
AfterStop(l) == IF l.srv THEN "ss_unlock" ELSE "idle"

\* stop(): if (threads_.empty()) return;
StopCheck ==
    /\ pc[Stopper] = "s_check"
    /\ IF threads_ = <<>>
       THEN /\ lock_' = "free"
            /\ Goto(Stopper, AfterStop(loc[Stopper]), Loc0)
       ELSE /\ Goto(Stopper, "s_close", loc[Stopper])
            /\ UNCHANGED lock_
    /\ UNCHANGED <<poolVars, ringVars, threads_, tstate, stopCalls, stopRets,
                   nworkers_, envVars, srvVars, testVars>>

\* stop(): epoll::close();
StopClosePoller ==
    /\ pc[Stopper] = "s_close"
    /\ epClosed' = TRUE
    /\ Goto(Stopper, "s_join", [loc[Stopper] EXCEPT !.idx = 0])
    /\ UNCHANGED <<clientsize_, sfd, reg, fdOpen, ringVars, lifeVars, envVars, srvVars,
                   testVars>>

\* stop(): for (i = 0; i != threads_.size(); ++i) threads_[i].join();
\* join() waits for the thread function to end; on a thread that was already
\* joined it throws std::system_error, which leaves stop() through the guard.
StopJoin ==
    /\ pc[Stopper] = "s_join"
    /\ LET i == loc[Stopper].idx IN
       IF i = Len(threads_)
       THEN /\ Goto(Stopper, "s_sweep", [loc[Stopper] EXCEPT !.idx = 0])
            /\ UNCHANGED <<tstate, lock_>>
       ELSE \/ /\ tstate[threads_[i + 1]] = "exited"
               /\ tstate' = [tstate EXCEPT ![threads_[i + 1]] = "joined"]
               /\ Goto(Stopper, "s_join", [loc[Stopper] EXCEPT !.idx = i + 1])
               /\ UNCHANGED lock_
            \/ /\ tstate[threads_[i + 1]] = "joined"
               /\ lock_' = "free"
               /\ Goto(Stopper, "threw", loc[Stopper])
               /\ UNCHANGED tstate
    /\ UNCHANGED <<poolVars, ringVars, threads_, stopCalls, stopRets, nworkers_,
                   envVars, srvVars, testVars>>

\* stop(): the slot whose sfd pass i of the closing loop tests and closes:
\* if (mem_->sfd) endpoint_close(mem_->sfd);  mem_ is &mem_[0] in every pass.
SweepSlot(i) == 1

\* stop(): for (i = 0; i != clientcap_; ++i) { ... }, then the guard unlocks.
StopSweep ==
    /\ pc[Stopper] = "s_sweep"
    /\ LET i == loc[Stopper].idx IN
       IF i = clientcap_
       THEN /\ lock_' = "free"
            /\ stopRets' = stopRets + 1
            /\ Goto(Stopper, AfterStop(loc[Stopper]), Loc0)
            /\ UNCHANGED <<fdOpen, reg>>
       ELSE /\ IF sfd[SweepSlot(i)] # 0
               THEN CloseFd(sfd[SweepSlot(i)])
               ELSE UNCHANGED <<fdOpen, reg>>
            /\ Goto(Stopper, "s_sweep", [loc[Stopper] EXCEPT !.idx = i + 1])
            /\ UNCHANGED <<lock_, stopRets>>
    /\ UNCHANGED <<clientsize_, sfd, epClosed, ringVars, threads_, tstate,
                   stopCalls, nworkers_, envVars, srvVars, testVars>>

StopStep ==
    \/ StopLock
    \/ StopCheck
    \/ StopClosePoller
    \/ StopJoin
    \/ StopSweep

\* --------------------------------------------------- pool.hpp: server_pool
\* server_pool::run(): std::lock_guard<std::mutex> lock(lock_);
SrvRunLock ==
    /\ pc[Acceptor] = "idle"
    /\ slock_ = "free"
    /\ slock_' = Acceptor
    /\ Goto(Acceptor, "r_clients", Loc0)
    /\ UNCHANGED <<poolVars, ringVars, lifeVars, envVars, testVars,
                   lpClosed, lreg, lopen>>

\* server_pool::run(): clients_.run();  (client_pool::run under its own lock)
SrvRunClients ==
    /\ pc[Acceptor] = "r_clients"
    /\ lock_ = "free"
    /\ IF threads_ = <<>>
       THEN /\ threads_' = SubSeq(WorkerSeq, 1, nworkers_)
            /\ tstate' = [w \in Workers |->
                            IF Spawned(w) THEN "running" ELSE tstate[w]]
            /\ pc' = [th \in Threads |->
                        IF Spawned(th) THEN "wait"
                        ELSE IF th = Acceptor THEN "l_wait" ELSE pc[th]]
       ELSE /\ pc' = [pc EXCEPT ![Acceptor] = "l_wait"]
            /\ UNCHANGED <<threads_, tstate>>
    /\ UNCHANGED <<poolVars, ringVars, lock_, stopCalls, stopRets, nworkers_,
                   envVars, srvVars, testVars, loc>>

\* The readiness masks delivered for a listener.
ListenerMasks == {{EPOLLIN}, {EPOLLIN, EPOLLHUP}, {EPOLLERR}}

\* server_pool::run(): epoll::wait() on the listener poller delivers an event
\* of a registered listener: process(cast(data), flags).
ListenerWait ==
    /\ pc[Acceptor] = "l_wait"
    /\ ~lpClosed
    /\ \E l \in lreg \cap lopen, flags \in ListenerMasks :
          Goto(Acceptor, "l_accept", [Loc0 EXCEPT !.lfd = l, !.flags = flags])
    /\ UNCHANGED <<poolVars, ringVars, lifeVars, envVars, srvVars, testVars>>

\* errno of an endpoint_accept that returned -1.
AcceptErrors == {"EAGAIN", "EMFILE"}

\* server_pool::process: while ((cfd = endpoint_accept(sfd)) != -1): a
\* connection is accepted on the lowest free descriptor, or accept fails and
\* the loop ends.
ListenerAccept ==
    /\ pc[Acceptor] = "l_accept"
    /\ \/ /\ Cardinality(fdOpen) < maxConn
          /\ \E fd \in Fds \ fdOpen :
                /\ \A g \in Fds \ fdOpen : fd <= g
                /\ fdOpen' = fdOpen \cup {fd}
                /\ Goto(Acceptor, "l_unblock", [loc[Acceptor] EXCEPT !.fd = fd])
       \/ /\ \E e \in AcceptErrors :
                Goto(Acceptor, "l_ret", [loc[Acceptor] EXCEPT !.err = e])
          /\ UNCHANGED fdOpen
    /\ UNCHANGED <<clientsize_, sfd, reg, epClosed, ringVars, lifeVars,
                   envVars, srvVars, testVars>>

\* server_pool::process: if (endpoint_unblock(cfd) != 0 || ...): a failure
\* short-circuits to endpoint_close(cfd), success goes on to add_client(cfd).
ListenerUnblock ==
    /\ pc[Acceptor] = "l_unblock"
    /\ \/ Goto(Acceptor, "add_client", loc[Acceptor])
       \/ Goto(Acceptor, "a_ret", [loc[Acceptor] EXCEPT !.ret = FALSE])
    /\ UNCHANGED <<poolVars, ringVars, lifeVars, envVars, srvVars, testVars>>

\* server_pool::process returns: nothing is done with the listener, whatever
\* the flags of the event and the errno of the failed accept were.
ListenerReturn ==
    /\ pc[Acceptor] = "l_ret"
    /\ Goto(Acceptor, "l_wait", Loc0)
    /\ UNCHANGED <<poolVars, ringVars, lifeVars, envVars, srvVars, testVars>>

\* server_pool::run(): epoll::wait() returns for good on a closed poller; the
\* lock guard unlocks and run() returns.
SrvRunReturn ==
    /\ pc[Acceptor] = "l_wait"
    /\ lpClosed
    /\ slock_' = "free"
    /\ Goto(Acceptor, "r_done", Loc0)
    /\ UNCHANGED <<poolVars, ringVars, lifeVars, envVars, testVars,
                   lpClosed, lreg, lopen>>

\* server_pool::stop(): epoll::close(); on the listener poller, before the
\* lock is taken.
SrvStopClose ==
    /\ pc[Stopper] = "idle"
    /\ lpClosed' = TRUE
    /\ Goto(Stopper, "ss_lock", Loc0)
    /\ UNCHANGED <<poolVars, ringVars, lifeVars, envVars, testVars,
                   slock_, lreg, lopen>>

\* server_pool::stop(): std::lock_guard<std::mutex> lock(lock_);
SrvStopLock ==
    /\ pc[Stopper] = "ss_lock"
    /\ slock_ = "free"
    /\ slock_' = Stopper
    /\ Goto(Stopper, "ss_clients", Loc0)
    /\ UNCHANGED <<poolVars, ringVars, lifeVars, envVars, testVars,
                   lpClosed, lreg, lopen>>

\* server_pool::stop(): clients_.stop(); enters client_pool::stop(), which
\* takes the pool's own lock.
SrvStopClients ==
    /\ pc[Stopper] = "ss_clients"
    /\ lock_ = "free"
    /\ lock_' = Stopper
    /\ stopCalls' = stopCalls + 1
    /\ Goto(Stopper, "s_check", [Loc0 EXCEPT !.srv = TRUE])
    /\ UNCHANGED <<poolVars, ringVars, threads_, tstate, stopRets, nworkers_,
                   envVars, srvVars, testVars>>

\* server_pool::stop(): clients_.stop() returned; the lock guard unlocks.
SrvStopUnlock ==
    /\ pc[Stopper] = "ss_unlock"
    /\ slock_' = "free"
    /\ Goto(Stopper, "ss_done", Loc0)
    /\ UNCHANGED <<poolVars, ringVars, lifeVars, envVars, testVars,
                   lpClosed, lreg, lopen>>

\* ------------------------------------------------------------ initial state
\* client_pool constructor: clientsize_ = 0, the ring's cells pre-loaded with
\* the pointers to every slab entry (head_ = tail_ = 0), the slab zero-filled.
PoolMasks == {{EPOLLIN}, {EPOLLRDHUP}}

InitPool ==
    /\ cap_ = gen_memmap(unused_capHint)
    /\ clientsize_ = 0
    /\ sfd = [k \in Slots |-> 0]
    /\ buff_ = [i \in 0 .. cap_ - 1 |-> i + 1]
    /\ head_ = 0
    /\ tail_ = 0
    /\ live = cap_
    /\ reg = [fd \in Fds |-> NoReg]
    /\ epClosed = FALSE
    /\ fdOpen = {}
    /\ threads_ = <<>>
    /\ tstate = [w \in Workers |-> "none"]
    /\ lock_ = "free"
    /\ stopCalls = 0
    /\ stopRets = 0
    /\ slock_ = "free"
    /\ lpClosed = FALSE
    /\ toEnq = {}
    /\ deqLeft = 0
    /\ deqd = EmptyBag
    /\ pc = [th \in Threads |-> "idle"]
    /\ loc = [th \in Threads |-> Loc0]

Init ==
    /\ InitPool
    /\ nworkers_ = 2
    /\ maskSet = PoolMasks
    /\ addMayFail = TRUE
    /\ maxConn = MaxFd
    /\ hist = FALSE
    /\ lreg = {}
    /\ lopen = {}

Next ==
    \/ Run
    \/ AcceptorStep
    \/ \E w \in Workers : Wait(w)
    \/ \E w \in Workers : InStep(w)
    \/ \E w \in Workers : UnuseStep(w)

Spec == Init /\ [][Next]_vars

\* The same pool in a run in which the kernel refuses no registration.
InitNoFail ==
    /\ InitPool
    /\ nworkers_ = 2
    /\ maskSet = PoolMasks
    /\ addMayFail = FALSE
    /\ maxConn = MaxFd
    /\ hist = FALSE
    /\ lreg = {}
    /\ lopen = {}

SpecNoFail == InitNoFail /\ [][Next]_vars

\* Two workers and the handlers of one connection at a time.
HandlerMasks == {{EPOLLIN}, {EPOLLIN, EPOLLOUT}, {EPOLLPRI, EPOLLOUT}, {EPOLLRDHUP}}

InitHandlers ==
    /\ InitPool
    /\ nworkers_ = 2
    /\ maskSet = HandlerMasks
    /\ addMayFail = FALSE
    /\ maxConn = 1
    /\ hist = FALSE
    /\ lreg = {}
    /\ lopen = {}

NextHandlers ==
    \/ Run
    \/ AcceptorStep
    \/ \E w \in Workers : Wait(w)
    \/ \E w \in Workers : InStep(w)
    \/ \E w \in Workers : PriStep(w)
    \/ \E w \in Workers : OnWriteReadyReturn(w)
    \/ \E w \in Workers : UnuseStep(w)

SpecHandlers == InitHandlers /\ [][NextHandlers]_vars

\* One worker serving one connection at a time, every readiness mask the
\* kernel can deliver, each event recorded.
DispatchMasks == (SUBSET AllFlags) \ {{}}

InitDispatch ==
    /\ InitPool
    /\ nworkers_ = 1
    /\ maskSet = DispatchMasks
    /\ addMayFail = FALSE
    /\ maxConn = 1
    /\ hist = TRUE
    /\ lreg = {}
    /\ lopen = {}

NextDispatch ==
    \/ NextHandlers
    \/ \E w \in Workers : ProcessReturn(w)

SpecDispatch == InitDispatch /\ [][NextDispatch]_vars

\* The lifecycle: run(), clients that come and hang up, and stop() called up
\* to MaxStopCalls times.
StopMasks == {{EPOLLRDHUP}}

InitStop ==
    /\ InitPool
    /\ nworkers_ = 2
    /\ maskSet = StopMasks
    /\ addMayFail = FALSE
    /\ maxConn = MaxFd
    /\ hist = FALSE
    /\ lreg = {}
    /\ lopen = {}

NextStop ==
    \/ Run
    \/ AcceptorStep
    \/ \E w \in Workers : Wait(w)
    \/ \E w \in Workers : WaitClosed(w)
    \/ \E w \in Workers : UnuseStep(w)
    \/ StopStep

SpecStop == InitStop /\ [][NextStop]_vars

\* The server: run() on one thread (as main starts it on t1), stop() on
\* another, the registered listeners and the clients they accept.
InitServer ==
    /\ InitPool
    /\ nworkers_ = 2
    /\ maskSet = StopMasks
    /\ addMayFail = FALSE
    /\ maxConn = 1
    /\ hist = FALSE
    /\ lreg = Listeners
    /\ lopen = Listeners

NextServer ==
    \/ SrvRunLock
    \/ SrvRunClients
    \/ ListenerWait
    \/ ListenerAccept
    \/ ListenerUnblock
    \/ AddClientStep
    \/ ListenerReturn
    \/ SrvRunReturn
    \/ \E w \in Workers : Wait(w)
    \/ \E w \in Workers : WaitClosed(w)
    \/ \E w \in Workers : UnuseStep(w)
    \/ SrvStopClose
    \/ SrvStopLock
    \/ SrvStopClients
    \/ StopCheck
    \/ StopClosePoller
    \/ StopJoin
    \/ StopSweep
    \/ SrvStopUnlock

SpecServer == InitServer /\ [][NextServer]_vars

\* ------------------------------------------------------- the ring on its own
\* A producer thread calls enqueue(v) with a value not yet passed.
ProducerCall(p) ==
    /\ pc[p] = "idle"
    /\ \E v \in toEnq :
          /\ toEnq' = toEnq \ {v}
          /\ Goto(p, "enq_faa", [Loc0 EXCEPT !.data = v])
    /\ UNCHANGED <<poolVars, ringVars, lifeVars, envVars, srvVars, deqLeft, deqd>>

ProducerStep(p) ==
    /\ EnqueueStep(p)
    /\ UNCHANGED <<poolVars, lifeVars, envVars, srvVars, testVars>>

\* A consumer thread calls dequeue().
ConsumerCall(c) ==
    /\ pc[c] = "idle"
    /\ deqLeft > 0
    /\ deqLeft' = deqLeft - 1
    /\ Goto(c, "deq_faa", Loc0)
    /\ UNCHANGED <<poolVars, ringVars, lifeVars, envVars, srvVars, toEnq, deqd>>

ConsumerStep(c) ==
    /\ DequeueStep(c)
    /\ UNCHANGED <<poolVars, lifeVars, envVars, srvVars, testVars>>

\* dequeue: return data;
ConsumerReturn(c) ==
    /\ pc[c] = "deq_ret"
    /\ deqd' = deqd (+) SetToBag({loc[c].data})
    /\ Goto(c, "idle", Loc0)
    /\ UNCHANGED <<poolVars, ringVars, lifeVars, envVars, srvVars, toEnq, deqLeft>>

\* atomic_queue(capHint): head_ = tail_ = 0 over a zero-filled mapping; cap_
\* values are to be enqueued and cap_ dequeues to be made.
RingValues == 1 .. cap_

InitRing ==
    /\ cap_ = gen_memmap(unused_capHint)
    /\ clientsize_ = 0
    /\ sfd = [k \in Slots |-> 0]
    /\ buff_ = [i \in 0 .. cap_ - 1 |-> 0]
    /\ head_ = 0
    /\ tail_ = 0
    /\ live = 0
    /\ reg = [fd \in Fds |-> NoReg]
    /\ epClosed = FALSE
    /\ fdOpen = {}
    /\ threads_ = <<>>
    /\ tstate = [w \in Workers |-> "none"]
    /\ lock_ = "free"
    /\ stopCalls = 0
    /\ stopRets = 0
    /\ slock_ = "free"
    /\ lpClosed = FALSE
    /\ nworkers_ = 0
    /\ maskSet = {}
    /\ addMayFail = FALSE
    /\ maxConn = 0
    /\ hist = FALSE
    /\ lreg = {}
    /\ lopen = {}
    /\ toEnq = RingValues
    /\ deqLeft = cap_
    /\ deqd = EmptyBag
    /\ pc = [th \in Threads |-> "idle"]
    /\ loc = [th \in Threads |-> Loc0]

NextRing ==
    \/ \E p \in Producers : ProducerCall(p)
    \/ \E p \in Producers : ProducerStep(p)
    \/ \E c \in Consumers : ConsumerCall(c)
    \/ \E c \in Consumers : ConsumerStep(c)
    \/ \E c \in Consumers : ConsumerReturn(c)

SpecRing == InitRing /\ [][NextRing]_vars

\* ------------------------------------------- the ring under looping callers
\* The threads that use the ring concurrently: fewer than its capacity.
LoopProducers == {"p1", "p2"}
LoopConsumers == {"c1"}

\* Calls of enqueue that have not stored yet, calls of dequeue that have not
\* reserved their cell yet.
EnqPending == Cardinality({p \in Producers : pc[p] \in {"enq_faa", "enq_store"}})
DeqPending == Cardinality({c \in Consumers : pc[c] = "deq_faa"})

\* A thread calls enqueue again, as unuse does: only for an element that is
\* not in the ring, so that the ring never holds more than cap_ elements.
ProducerLoopCall(p) ==
    /\ pc[p] = "idle"
    /\ live + EnqPending < cap_
    /\ Goto(p, "enq_faa", [Loc0 EXCEPT !.data = 1])
    /\ UNCHANGED <<poolVars, ringVars, lifeVars, envVars, srvVars, testVars>>

\* A thread calls dequeue again, as use does: only when an element is left.
ConsumerLoopCall(c) ==
    /\ pc[c] = "idle"
    /\ live - DeqPending > 0
    /\ Goto(c, "deq_faa", Loc0)
    /\ UNCHANGED <<poolVars, ringVars, lifeVars, envVars, srvVars, testVars>>

\* dequeue: return data; the caller keeps no record of it.
ConsumerLoopReturn(c) ==
    /\ pc[c] = "deq_ret"
    /\ Goto(c, "idle", Loc0)
    /\ UNCHANGED <<poolVars, ringVars, lifeVars, envVars, srvVars, testVars>>

\* atomic_queue(capHint): an empty ring, used by looping threads.
InitEmptyRing(capHint) ==
    /\ cap_ = gen_memmap(capHint)
    /\ clientsize_ = 0
    /\ sfd = [k \in Slots |-> 0]
    /\ buff_ = [i \in 0 .. cap_ - 1 |-> 0]
    /\ head_ = 0
    /\ tail_ = 0
    /\ live = 0
    /\ reg = [fd \in Fds |-> NoReg]
    /\ epClosed = FALSE
    /\ fdOpen = {}
    /\ threads_ = <<>>
    /\ tstate = [w \in Workers |-> "none"]
    /\ lock_ = "free"
    /\ stopCalls = 0
    /\ stopRets = 0
    /\ slock_ = "free"
    /\ lpClosed = FALSE
    /\ nworkers_ = 0
    /\ maskSet = {}
    /\ addMayFail = FALSE
    /\ maxConn = 0
    /\ hist = FALSE
    /\ lreg = {}
    /\ lopen = {}
    /\ toEnq = {}
    /\ deqLeft = 0
    /\ deqd = EmptyBag
    /\ pc = [th \in Threads |-> "idle"]
    /\ loc = [th \in Threads |-> Loc0]

\* The ring of hint RingCapHint: its capacity exceeds the number of threads.
InitRingLoop == InitEmptyRing(RingCapHint)

NextRingLoop ==
    \/ \E p \in LoopProducers : ProducerLoopCall(p)
    \/ \E p \in LoopProducers : ProducerStep(p)
    \/ \E c \in LoopConsumers : ConsumerLoopCall(c)
    \/ \E c \in LoopConsumers : ConsumerStep(c)
    \/ \E c \in LoopConsumers : ConsumerLoopReturn(c)

SpecRingLoop == InitRingLoop /\ [][NextRingLoop]_vars

\* Any number of threads keep calling: here every producer and one consumer,
\* on a ring with the capacity the pool gives its free list.
\* A thread that is inside enqueue or dequeue goes on executing whenever its
\* next statement can be executed (weak fairness of every thread); a pass of
\* the spin loop that finds the counter still above the index changes nothing
\* and is not a step.
InitRingFair == InitEmptyRing(unused_capHint)

NextRingFair ==
    \/ \E p \in Producers : ProducerLoopCall(p)
    \/ \E p \in Producers : ProducerStep(p)
    \/ \E c \in LoopConsumers : ConsumerLoopCall(c)
    \/ \E c \in LoopConsumers : ConsumerStep(c)
    \/ \E c \in LoopConsumers : ConsumerLoopReturn(c)

FairThreads ==
    /\ \A p \in Producers : WF_vars(ProducerStep(p))
    /\ \A c \in LoopConsumers : WF_vars(ConsumerStep(c) \/ ConsumerLoopReturn(c))

SpecRingFair == InitRingFair /\ [][NextRingFair]_vars /\ FairThreads

\* ------------------------------------------------ the free list, as a view
\* The cells a dequeue will return next: live cells starting at head_.
FreeList == [j \in 1 .. live |-> buff_[Cell(head_ + j - 1)]]
InRing(k) == \E j \in 1 .. live : FreeList[j] = k
TimesInRing(k) == Cardinality({j \in 1 .. live : FreeList[j] = k})

\* No ring operation is between reserving its index and using the cell.
RingSettled == \A th \in Threads : pc[th] \notin {"enq_store", "deq_read"}

\* Positions of add_client after the capacity check let the call through.
ClaimPcs == {"inc_size", "deq_faa", "deq_read", "deq_spin", "deq_cas",
             "construct", "register"}
\* Positions of unuse.
UnusePcs == {"u_remove", "u_close", "u_zero", "enq_faa", "enq_store",
             "enq_spin", "enq_cas", "dec_size"}

\* No add_client (use) and no unuse is in progress.
Quiescent ==
    /\ pc[Acceptor] = "idle"
    /\ \A w \in Workers : pc[w] \notin UnusePcs

\* ------------------------------------------------------------------ claims

\* C1: no client slot is owned twice: the pointer use() got from the free-list
\* dequeue is not registered in the poller for a live client, no slot is
\* registered more than once, and no slot is in the free-list ring and
\* registered in the poller at the same time.
C1_NoSlotOwnedTwice ==
    /\ \A k \in Slots : Cardinality(Registered(k)) <= 1
    /\ pc[Acceptor] \in {"deq_spin", "deq_cas", "construct"}
          => \A fd \in Fds : reg[fd] = NoReg \/ reg[fd].slot # loc[Acceptor].data
    /\ RingSettled
          => \A k \in Slots : ~(InRing(k) /\ Registered(k) # {})

\* C3 as stated: add_client returns false exactly when size == cap at entry.
C3_FalseIffFull ==
    pc[Acceptor] = "a_ret"
        => (loc[Acceptor].ret = FALSE <=> loc[Acceptor].entry = clientcap_)

\* C3 as amended: add_client returns false exactly when size == cap at entry
\* or the poller registration of the claimed slot failed, and it claims no
\* slot when size == cap at entry.
C3_FalseIffFullOrRegistrationFailed ==
    /\ pc[Acceptor] = "a_ret"
          => (loc[Acceptor].ret = FALSE
                <=> (loc[Acceptor].entry = clientcap_ \/ loc[Acceptor].addret # 0))
    /\ pc[Acceptor] \in ClaimPcs => loc[Acceptor].entry # clientcap_
    /\ (pc[Acceptor] = "a_ret" /\ loc[Acceptor].entry = clientcap_)
          => loc[Acceptor].cl = 0

\* C3 witness: add_client returns false although size < cap at entry.
C3_Witness ==
    /\ pc[Acceptor] = "a_ret"
    /\ loc[Acceptor].ret = FALSE
    /\ loc[Acceptor].entry < clientcap_
    /\ loc[Acceptor].addret # 0

\* C4: when the registration of the claimed slot fails, the slot is recycled
\* before add_client returns false: sfd is 0 again, the pointer is back in the
\* free-list ring and size is not above its value at entry.
C4_FailedRegistrationRecycles ==
    (pc[Acceptor] = "a_ret" /\ loc[Acceptor].addret # 0)
        => /\ sfd[loc[Acceptor].cl] = 0
           /\ InRing(loc[Acceptor].cl)
           /\ clientsize_ <= loc[Acceptor].entry

\* Claims that incremented size and have not yet reserved a ring cell, and
\* recycles that stored their pointer and have not yet decremented size.
UseAhead == IF pc[Acceptor] = "deq_faa" THEN 1 ELSE 0
UnuseBehind ==
    Cardinality({w \in Workers : pc[w] \in {"enq_spin", "enq_cas", "dec_size"}})

\* C5 as stated: size plus the free pointers in the ring never exceeds cap.
C5_SumNeverExceedsCap == clientsize_ + live <= clientcap_

\* C5 as amended: size plus the free pointers in the ring is never below cap;
\* it exceeds cap exactly by the claims and recycles that are between their
\* counter update and their ring update.
C5_SumAtLeastCap ==
    /\ clientsize_ + live >= clientcap_
    /\ clientsize_ + live = clientcap_ + UseAhead + UnuseBehind

\* C5 witness: in the middle of a claim the sum is cap + 1.
C5_Witness ==
    /\ pc[Acceptor] = "deq_faa"
    /\ clientsize_ + live = clientcap_ + 1

\* C6: at every quiescent point size + free slots == cap, every free slot
\* (sfd = 0) is in the free list exactly once and no claimed slot is in it.
C6_QuiescentPool ==
    Quiescent
        => /\ clientsize_ + live = clientcap_
           /\ \A k \in Slots : TimesInRing(k) = (IF sfd[k] = 0 THEN 1 ELSE 0)

\* C10: a pool constructed with capacity c serves at most c clients at the
\* same time.
C10_ServesAtMostArg ==
    Cardinality({fd \in Fds : reg[fd] # NoReg}) <= ClientCapArg

\* A worker is inside a handler callback.
CallbackPcs == {"in_on_input", "pri_on_input", "pri_on_oob", "on_write_ready"}
InCallback(w) == pc[w] \in CallbackPcs

\* C2: no two worker threads are inside a handler callback for the same
\* client slot at the same time.
C2_OneHandlerPerSlot ==
    \A w1 \in Workers : \A w2 \in Workers \ {w1} :
        (InCallback(w1) /\ InCallback(w2)) => loc[w1].cl # loc[w2].cl

\* C7: after stop() returned on a running pool no worker thread is alive and
\* the socket of every slot whose sfd is non-zero has been closed.
C7_StopClosesEverySocket ==
    stopRets >= 1
        => /\ \A i \in 1 .. Len(threads_) : tstate[threads_[i]] = "joined"
           /\ \A k \in Slots : sfd[k] # 0 => sfd[k] \notin fdOpen

\* C8: a stop() called after a stop() has returned is a no-op: it does not get
\* to closing the poller, joining a thread or closing a socket.
C8_SecondStopIsNoOp ==
    stopRets >= 1 => pc[Stopper] \notin {"s_close", "s_join", "s_sweep", "threw"}

\* Every enqueue and every dequeue of the ring test has returned.
RingDone ==
    /\ toEnq = {}
    /\ deqLeft = 0
    /\ \A th \in Producers \cup Consumers : pc[th] = "idle"

\* C9: after cap enqueues and cap dequeues on the ring alone, the multiset of
\* dequeued values equals the multiset of enqueued values.
C9_DequeuedEqualsEnqueued ==
    RingDone => deqd = SetToBag(RingValues)

\* The callbacks of the event a worker is processing, and the last of them.
Calls(w) == loc[w].calls
LastCall(w) == Calls(w)[Len(Calls(w))]
Called(w, fn) == \E i \in 1 .. Len(Calls(w)) : Calls(w)[i].fn = fn
\* The pool operations of the event a worker is processing.
Did(w, act) == \E i \in 1 .. Len(loc[w].acts) : loc[w].acts[i] = act

\* C11: in the urgent-path drain, when the mark is reported and read_oob
\* yields a byte, the on_oob that is invoked is the user-supplied handler's
\* (the derived class's), and it is invoked before the on_input of the same
\* loop pass.
C11_UserOnOobInvoked ==
    \A w \in Workers :
        /\ pc[w] = "pri_on_oob"
              => /\ LastCall(w).fn = "on_oob"
                 /\ LastCall(w).on = "Tderiv"
        /\ \A i \in 1 .. Len(Calls(w)) :
              Calls(w)[i].fn = "on_oob" => Calls(w)[i].on = "Tderiv"

\* C12: once the slot has been recycled during an event, the worker invokes
\* no further handler callback for it during that event.
C12_NoCallbackAfterRecycle ==
    \A w \in Workers : InCallback(w) => ~Did(w, "remove")

\* process() is at its end: the record of the event is complete.
AtEnd(w) == pc[w] = "p_ret"
\* unuse, as the pool operations it is made of.
UnuseActs == <<"remove", "close", "zero", "enqueue", "dec">>
\* The drain path of the event has re-armed the slot or recycled it.
DrainDone(w) == Did(w, "rearm") \/ Did(w, "dec")
Hangup(flags) == flags \cap {EPOLLHUP, EPOLLRDHUP} # {}
Data(flags) == flags \cap {EPOLLIN, EPOLLPRI} # {}

\* C15: for every mask with PEER_CLOSED and/or HANGUP and neither READABLE
\* nor URGENT (with or without WRITABLE) the dispatcher recycles the slot and
\* invokes no handler.
C15_HangupRecycles ==
    \A w \in Workers :
        (AtEnd(w) /\ Hangup(loc[w].flags) /\ ~Data(loc[w].flags))
            => /\ loc[w].acts = UnuseActs
               /\ Calls(w) = <<>>

\* C16: for every mask with READABLE or URGENT together with PEER_CLOSED
\* and/or HANGUP (no ERROR) the dispatcher runs the drain path: the urgent
\* path if URGENT is set, else the readable path.
C16_HangupWithDataDrains ==
    \A w \in Workers :
        (AtEnd(w) /\ Data(loc[w].flags) /\ Hangup(loc[w].flags)
                  /\ EPOLLERR \notin loc[w].flags)
            => /\ loc[w].handlers # <<>>
               /\ loc[w].handlers[1] =
                     (IF EPOLLPRI \in loc[w].flags THEN "pri" ELSE "in")

\* Positions inside the drain paths.
DrainPcs == {"in_read", "in_on_input", "pri_mark", "pri_on_oob", "pri_read",
             "pri_on_input"}
\* The masks whose case in process() calls handle_epollout.
WriteMasks == {{EPOLLOUT}, {EPOLLIN, EPOLLOUT}, {EPOLLPRI, EPOLLOUT},
               {EPOLLIN, EPOLLPRI, EPOLLOUT}}
TimesCalled(w, fn) ==
    Cardinality({i \in 1 .. Len(Calls(w)) : Calls(w)[i].fn = fn})

\* C17 as stated: for every mask with WRITABLE together with READABLE and/or
\* URGENT (no ERROR), on_write_ready is invoked during the event.
C17_WriteReadyForEveryWritableMask ==
    \A w \in Workers :
        (AtEnd(w) /\ EPOLLOUT \in loc[w].flags /\ Data(loc[w].flags)
                  /\ EPOLLERR \notin loc[w].flags)
            => Called(w, "on_write_ready")

\* C17 as amended: on_write_ready is invoked exactly for the masks WRITABLE,
\* READABLE|WRITABLE, URGENT|WRITABLE and READABLE|URGENT|WRITABLE with no
\* other bit set; it is then invoked once, as the last callback, after the
\* drain path of the event has re-armed or recycled the slot, never before.
C17_WriteReadyLastForPlainMasks ==
    \A w \in Workers :
        /\ AtEnd(w)
              => (Called(w, "on_write_ready") <=> loc[w].flags \in WriteMasks)
        /\ Called(w, "on_write_ready")
              => /\ TimesCalled(w, "on_write_ready") = 1
                 /\ LastCall(w).fn = "on_write_ready"
                 /\ pc[w] \in {"on_write_ready", "p_ret"}
                 /\ Data(loc[w].flags) => DrainDone(w)

\* C17 witness: on_write_ready is running after the readable path re-armed.
C17_Witness ==
    \E w \in Workers :
        /\ pc[w] = "on_write_ready"
        /\ loc[w].flags = {EPOLLIN, EPOLLOUT}
        /\ Did(w, "rearm")
        /\ Called(w, "on_input")

\* C20: when the worker finishes processing an event the slot has been
\* re-armed in the poller or recycled.
C20_EveryEventRearmsOrRecycles ==
    \A w \in Workers : AtEnd(w) => DrainDone(w)

\* The event is served by the readable path: process() called handle_epollin.
ReadablePath(w) == loc[w].handlers # <<>> /\ loc[w].handlers[1] = "in"
\* The byte counts of the reads that returned data, and the byte counts
\* on_input was invoked with, each in order.
GotData(r) == r.n > 0
IsOnInput(c) == c.fn = "on_input"
DataRead(w) ==
    LET d == SelectSeq(loc[w].reads, GotData)
    IN  [i \in 1 .. Len(d) |-> d[i].n]
InputArgs(w) ==
    LET c == SelectSeq(Calls(w), IsOnInput)
    IN  [i \in 1 .. Len(c) |-> c[i].arg]
LastRead(w) == loc[w].reads[Len(loc[w].reads)]
\* Every read but the last returned data.
OnlyLastEnds(w) ==
    \A i \in 1 .. Len(loc[w].reads) - 1 : GotData(loc[w].reads[i])
WouldBlock(r) == r.n = -1 /\ r.errno = "EAGAIN"

\* C18: the readable-path drain invokes on_input once per read that returns
\* n > 0, in read order and with that n, and ends at the first other result
\* with exactly one terminal action: re-arm on -1 with EAGAIN, recycle on 0 or
\* on -1 with another error; it never does both and never reads again after.
C18_ReadablePathDrain ==
    \A w \in Workers :
        ReadablePath(w)
            => /\ InputArgs(w) = DataRead(w)
               /\ \A i \in 1 .. Len(Calls(w)) :
                     IsOnInput(Calls(w)[i]) => Calls(w)[i].on = "Tderiv"
               /\ pc[w] \in {"in_read", "in_on_input"}
                     => /\ loc[w].acts = <<>>
                        /\ \A i \in 1 .. Len(loc[w].reads) : GotData(loc[w].reads[i])
               /\ pc[w] \in UnusePcs
                     => /\ ~GotData(LastRead(w)) /\ ~WouldBlock(LastRead(w))
                        /\ OnlyLastEnds(w)
                        /\ ~Did(w, "rearm")
               /\ pc[w] \in {"on_write_ready", "p_ret"}
                     => /\ ~GotData(LastRead(w))
                        /\ OnlyLastEnds(w)
                        /\ loc[w].acts = (IF WouldBlock(LastRead(w))
                                          THEN <<"rearm">> ELSE UnuseActs)

\* C18 witness: a drain that delivered two reads and then re-armed.
C18_Witness ==
    \E w \in Workers :
        /\ AtEnd(w)
        /\ loc[w].handlers = <<"in">>
        /\ DataRead(w) = <<2, 1>>
        /\ InputArgs(w) = <<2, 1>>
        /\ WouldBlock(LastRead(w))
        /\ loc[w].acts = <<"rearm">>

\* C19: the steps of unuse happen in the order remove, close, sfd = 0,
\* enqueue, decrement, and when the pointer is stored in the ring the slot is
\* not registered in the poller.
C19_RecycleOrder ==
    \A w \in Workers :
        /\ LET u == SelectSeq(loc[w].acts, LAMBDA a : a # "rearm")
           IN  u = SubSeq(UnuseActs, 1, Len(u))
        /\ pc[w] = "enq_store" => Registered(loc[w].data) = {}

\* C13: when server_pool::process returns from an event that carried ERROR or
\* HANGUP, or whose accept failed with an errno other than EAGAIN, the
\* listener has been deregistered from the listener poller and closed.
C13_BrokenListenerRemoved ==
    (pc[Acceptor] = "l_ret"
        /\ (loc[Acceptor].flags \cap {EPOLLERR, EPOLLHUP} # {}
                \/ loc[Acceptor].err # "EAGAIN"))
        => /\ loc[Acceptor].lfd \notin lreg
           /\ loc[Acceptor].lfd \notin lopen

\* C14: after one run() and one stop() of the server have both returned, no
\* client worker thread is left alive and unjoined.
C14_NoWorkerLeftAfterRunAndStop ==
    (pc[Acceptor] = "r_done" /\ pc[Stopper] = "ss_done")
        => \A w \in Workers : tstate[w] \in {"none", "joined"}

\* The index a thread is about to use on the buffer.
UsesIndex(th) == pc[th] \in {"enq_store", "deq_read"}
\* No call of enqueue or dequeue is in progress.
RingIdle == \A th \in Producers \cup Consumers : pc[th] = "idle"

\* Every index used on the buffer is inside the double mapping.
IndexInMapping ==
    \A th \in Threads :
        /\ pc[th] # "fault"
        /\ UsesIndex(th) => Mapped(loc[th].idx)
\* The counters are never negative.
CountersNonNegative == head_ >= 0 /\ tail_ >= 0
\* With no operation in progress both counters are below the capacity.
IdleCountersBelowCap == RingIdle => (head_ < cap_ /\ tail_ < cap_)
\* A counter only goes down by a rollover: by cap_, from a value >= cap_.
RolloverStep ==
    /\ tail_' < tail_ => (tail_ >= cap_ /\ tail_' = tail_ - cap_)
    /\ head_' < head_ => (head_ >= cap_ /\ head_' = head_ - cap_)

\* C21: with fewer threads on the ring than its capacity, every index used
\* on the buffer lies in [0, 2*cap_), a rollover only subtracts cap_ from a
\* counter that is >= cap_ (so the counters never become negative), and when
\* no ring operation is in progress head_ < cap_ and tail_ < cap_.
C21_RingIndexBounds ==
    /\ [](IndexInMapping /\ CountersNonNegative /\ IdleCountersBelowCap)
    /\ [][RolloverStep]_vars

\* The thread is inside a call of enqueue or dequeue.
InCall(th) == pc[th] # "idle"

\* Every call of enqueue and every call of dequeue eventually returns.
EveryCallReturns ==
    \A th \in Producers \cup LoopConsumers : InCall(th) ~> ~InCall(th)

\* C22: under weak fairness of every thread, every call of enqueue and every
\* call of dequeue eventually returns, whatever the other threads go on
\* calling: the spin-wait of the rollover always ends.  Runs in which an
\* index leaves the mapping (C21) are set aside, their outcome being
\* undefined: what is stated is that a call returns in all the others.
C22_SpinWaitEnds ==
    <>(~IndexInMapping) \/ EveryCallReturns

====
